---- MODULE Spec2Model ----
(***************************************************************************)
(* texdown: the rewrite engine of texdown.py / texdown2latex.py            *)
(* (Converter.do_convert, Converter.convert_one), the stateful block and   *)
(* startline handlers, the macro registry and the document driver.         *)
(*                                                                         *)
(* Text is a sequence of symbols.  A symbol is one character ("\t", "\n",  *)
(* " ", "!", ".", "3", ...) or a word: a run of letters written as one     *)
(* symbol ("techreport", "a").  Join gives the string a text stands for.   *)
(* Offsets are Python's: 0-based, the symbol at offset p is t[p + 1].      *)
(***************************************************************************)
EXTENDS Integers, Sequences, FiniteSets, TLC

(***************************************************************************)
(* Strings                                                                 *)
(***************************************************************************)
RECURSIVE Join(_)
Join(s) == IF s = <<>> THEN "" ELSE Head(s) \o Join(Tail(s))

\* texdown[a:b] for 0 <= a, b <= len(texdown)
Slice(t, a, b) == IF b <= a THEN <<>> ELSE SubSeq(t, a + 1, b)

\* str.count('\n') of texdown[:p]
RECURSIVE CountNewlines(_, _)
CountNewlines(t, p) ==
    IF p <= 0 THEN 0
    ELSE CountNewlines(t, p - 1) + (IF t[p] = "\n" THEN 1 ELSE 0)

Whitespace == {" ", "\t", "\n"}
Digits == {"0", "1", "2", "3", "4", "5", "6", "7", "8", "9"}

\* line.strip() is non-empty
StripNonEmpty(line) == \E i \in 1..Len(line) : line[i] \notin Whitespace

(***************************************************************************)
(* Regular expressions.  A pattern is a tree; Outcomes gives the ways the  *)
(* pattern can match at offset p in the order Python's backtracking        *)
(* matcher tries them, so the match re finds at p is the first outcome.    *)
(* Every repetition of CONVERSIONS_TXT repeats a one-symbol pattern.       *)
(* An intermediate value used several times is bound by a quantifier over  *)
(* a one-element set, CHOOSE r \in {e(x) : x \in {v}} : TRUE being e(v), so *)
(* that it is computed once wherever the operator is evaluated.            *)
(***************************************************************************)
Lit(c) == [t |-> "lit", c |-> c]
Set(S) == [t |-> "set", s |-> S, neg |-> FALSE]
NotSet(S) == [t |-> "set", s |-> S, neg |-> TRUE]
Dot == NotSet({"\n"})
Bol == [t |-> "bol"]
Eol == [t |-> "eol"]
NotBol == [t |-> "notbol"]
Rep(x, min, lazy) == [t |-> "rep", x |-> x, min |-> min, lazy |-> lazy]
Star(x) == Rep(x, 0, FALSE)
StarLazy(x) == Rep(x, 0, TRUE)
Plus(x) == Rep(x, 1, FALSE)
Grp(n, x) == [t |-> "grp", n |-> n, x |-> x]
Cat(xs) == [t |-> "cat", xs |-> xs]
Opt(x) == [t |-> "opt", x |-> x]

\* a group that did not take part in the match is None
None == <<>>
NoGroups == <<None, None, None>>

SymOK(x, c) ==
    IF x.t = "lit" THEN c = x.c ELSE (c \in x.s) # x.neg

\* the number of consecutive symbols from offset p that x accepts
RECURSIVE RunLen(_, _, _)
RunLen(x, t, p) ==
    IF p < Len(t) /\ SymOK(x, t[p + 1]) THEN 1 + RunLen(x, t, p + 1) ELSE 0

\* re.MULTILINE: ^ is the buffer start or just after a newline,
\* $ is the buffer end or just before a newline
AtBol(t, p) == p = 0 \/ t[p] = "\n"
AtEol(t, p) == p = Len(t) \/ t[p + 1] = "\n"

RECURSIVE Outcomes(_, _, _, _)
RECURSIVE CatFrom(_, _, _, _, _)
RECURSIVE CatOver(_, _, _, _, _)

Outcomes(x, t, p, g) ==
    CASE x.t \in {"lit", "set"} ->
           IF p < Len(t) /\ SymOK(x, t[p + 1])
           THEN <<[e |-> p + 1, g |-> g]>> ELSE <<>>
      [] x.t = "bol" -> IF AtBol(t, p) THEN <<[e |-> p, g |-> g]>> ELSE <<>>
      [] x.t = "eol" -> IF AtEol(t, p) THEN <<[e |-> p, g |-> g]>> ELSE <<>>
      [] x.t = "notbol" -> IF AtBol(t, p) THEN <<>> ELSE <<[e |-> p, g |-> g]>>
      [] x.t = "rep" ->
           LET r == RunLen(x.x, t, p)
           IN  IF r < x.min THEN <<>>
               ELSE [i \in 1..(r - x.min + 1) |->
                       [e |-> p + (IF x.lazy THEN x.min + i - 1 ELSE r - i + 1),
                        g |-> g]]
      [] x.t = "grp" ->
           LET os == Outcomes(x.x, t, p, g)
           IN  [i \in 1..Len(os) |->
                   [e |-> os[i].e, g |-> [os[i].g EXCEPT ![x.n] = <<p, os[i].e>>]]]
      [] x.t = "cat" -> CatFrom(x.xs, 1, t, p, g)
      [] x.t = "opt" -> Outcomes(x.x, t, p, g) \o <<[e |-> p, g |-> g]>>

CatFrom(xs, k, t, p, g) ==
    IF k > Len(xs) THEN <<[e |-> p, g |-> g]>>
    ELSE CHOOSE r \in {CatOver(os, 1, xs, k, t) :
                          os \in {Outcomes(xs[k], t, p, g)}} : TRUE

CatOver(os, i, xs, k, t) ==
    IF i > Len(os) THEN <<>>
    ELSE CatFrom(xs, k + 1, t, os[i].e, os[i].g) \o CatOver(os, i + 1, xs, k, t)

\* list(match.finditer(texdown)): the non-overlapping matches, left to right
RECURSIVE ScanFrom(_, _, _)
ScanFrom(pat, t, p) ==
    IF p > Len(t) THEN <<>>
    ELSE CHOOSE r \in
           {IF os = <<>> THEN ScanFrom(pat, t, p + 1)
            ELSE <<[start |-> p, end |-> os[1].e, g |-> os[1].g]>>
                 \o ScanFrom(pat, t, IF os[1].e > p THEN os[1].e ELSE p + 1) :
            os \in {Outcomes(pat, t, p, NoGroups)}} : TRUE

FindIter(pat, t) ==
    CHOOSE r \in {ScanFrom(q, s, 0) : q \in {pat}, s \in {t}} : TRUE

\* match.group(n): None when the group did not take part
Group(t, m, n) == IF m.g[n] = None THEN None ELSE Slice(t, m.g[n][1], m.g[n][2])
GroupIsNone(m, n) == m.g[n] = None

(***************************************************************************)
(* CONVERSIONS_TXT: the rule table                                         *)
(***************************************************************************)
PatBlockCmd == Cat(<<Bol, Lit("\t"), Grp(1, Star(Dot)), Eol>>)
PatStartlineCmd ==
    Cat(<<Bol, Lit("!"), Lit("!"), Grp(1, StarLazy(NotSet({" "}))),
          Opt(Cat(<<Lit(" "), Grp(2, StarLazy(Dot))>>)), Eol>>)
\* a bullet pattern that asks for no indentation
PatBulletsNoIndent ==
    Cat(<<Bol, Grp(1, Star(Lit(" "))), Lit("*"), Grp(2, StarLazy(Dot)), Lit("\n")>>)

PatBullets ==
    Cat(<<Bol, Grp(1, Plus(Lit(" "))), Lit("*"), Grp(2, StarLazy(Dot)), Lit("\n")>>)
PatNumbers ==
    Cat(<<Bol, Grp(1, Plus(Lit(" "))), Grp(2, Plus(Set(Digits))), Lit("."),
          Grp(3, StarLazy(Dot)), Lit("\n")>>)
PatMathmode == Cat(<<Lit("$"), Grp(1, StarLazy(Dot)), Lit("$")>>)
\* (?!^)%
PatEscapePercents == Cat(<<NotBol, Lit("%")>>)
PatBold == Cat(<<Lit("*"), Grp(1, Plus(NotSet({"*"}))), Lit("*")>>)
\* an underscore pattern that also matches the empty string
PatEscapeUnderscoresStar == Star(Lit("_"))

PatEscapeUnderscores == Lit("_")

\* The rules of the modelled alphabet, in declaration order.  The other
\* rules of CONVERSIONS_TXT each need a character no modelled text holds
\* (# = ^ - < ~ ( [ ' / " & :), so they never match here.
\* texdown2latex.py names the second rule "startline"; its fields are the same.
CONVERSIONS_ORDER ==
    <<"block_cmd", "startline_cmd", "bullets", "numbers", "mathmode", "bold",
      "escape_underscores", "escape_percents">>

\* the incl lines as written
InclTxt(name) ==
    CASE name = "block_cmd" -> <<"caption">>
      [] name \in {"bullets", "numbers"} ->
           <<"escape_percents", "teletype", "quotes", "bold", "italics", "cite",
             "ref", "escape_underscores">>
      [] name = "description" -> <<"italics", "bold">>
      [] name \in {"chapterstar", "chapter"} -> <<"label">>
      [] name \in {"section", "usenixabstract", "subsection", "subsubsection"} ->
           <<"label", "escape_underscores", "escape_percents", "teletype">>
      [] name = "caption" -> <<"label", "cite">>
      [] name = "teletype" -> <<"escape_underscores">>
      [] name = "quotes" ->
           <<"escape_underscores", "escape_percents", "escape_ampersands">>
      [] OTHER -> <<>>

\* the rules that have an incl line
Including ==
    {"block_cmd", "bullets", "numbers", "description", "chapterstar", "chapter",
     "section", "usenixabstract", "subsection", "subsubsection", "caption",
     "teletype", "quotes"}

IsModelled(name) == \E i \in 1..Len(CONVERSIONS_ORDER) : CONVERSIONS_ORDER[i] = name
\* an include list in which bold names itself
InclSelf(name) ==
    IF name = "bold" THEN <<"bold">> ELSE SelectSeq(InclTxt(name), IsModelled)

Incl(name) == SelectSeq(InclTxt(name), IsModelled)

\* conv['match'], conv['func'], conv['repl'] of a rule.  fl is the output
\* format: "html" is texdown.py patched by texdown2html.py's
\* CONVERSIONS_TXT, "latex" is texdown2latex.py's own table.
Match(name) ==
    CASE name = "block_cmd" -> PatBlockCmd
      [] name = "startline_cmd" -> PatStartlineCmd
      [] name = "bullets" -> PatBullets
      [] name = "numbers" -> PatNumbers
      [] name = "mathmode" -> PatMathmode
      [] name = "bold" -> PatBold
      [] name = "escape_underscores" -> PatEscapeUnderscores
      [] name = "escape_percents" -> PatEscapePercents

Func(name) ==
    CASE name = "block_cmd" -> "block_cmd"
      [] name = "startline_cmd" -> "startline_cmd"
      [] name = "bullets" -> "bullets"
      [] name = "numbers" -> "numbers"
      [] OTHER -> "-"

HasFunc(name) == Func(name) # "-"

\* In a template the symbol "\\1" is the reference to group 1.
Repl(fl, name) ==
    CASE name = "escape_underscores" -> IF fl = "html" THEN <<"_">> ELSE <<"\\_">>
      [] name = "bold" ->
           IF fl = "html" THEN <<"<b>", "\\1", "</b>">>
           ELSE <<"\\textbf{", "\\1", "}">>
      [] name = "escape_percents" -> IF fl = "html" THEN <<"%">> ELSE <<"\\%">>
      [] name = "mathmode" -> IF fl = "html" THEN None ELSE <<"$", "\\1", "$">>
      [] OTHER -> None

\* mathmode has a repl field in texdown2latex.py only: texdown2html.py's
\* patch declares a rule named '#mathmode', which update_conversions ignores
HasRepl(fl, name) ==
    /\ ~HasFunc(name)
    /\ \/ name \in {"bold", "escape_underscores", "escape_percents"}
       \/ name = "mathmode" /\ fl = "latex"

\* match.expand(conv['repl'])
RECURSIVE Expand(_, _, _)
Expand(repl, t, m) ==
    IF repl = <<>> THEN <<>>
    ELSE (IF Head(repl) = "\\1" THEN Group(t, m, 1) ELSE <<Head(repl)>>)
         \o Expand(Tail(repl), t, m)

(***************************************************************************)
(* Macro providers.  register_macros scans an object for macro_* methods.  *)
(* "conv" is the Converter itself, "builtin" macros.Macros, "local"        *)
(* localmacros.Macros, "html" texdown2html.Macros.  Of each provider the   *)
(* handlers the modelled documents can name are listed.                    *)
(***************************************************************************)
MacroNames(fl, obj) ==
    CASE obj = "conv" ->
           IF fl = "html" THEN {"block_cmd", "startline_cmd"}
           ELSE {"block_cmd", "startline_cmd", "bullets", "numbers", "floatgraphic"}
      [] obj = "builtin" -> {"techreport", "nictatr", "end_document"}
      [] obj = "local" -> {"techreport", "nictatr", "floatgraphic", "end_document"}
      [] obj = "html" ->
           {"techreport", "floatgraphic", "bullets", "numbers", "end_document"}
      [] obj = "hooks" -> {"postproc_bullets"}

\* the order in which Converter.__init__ registers the providers
ProviderOrder(fl, has_local) ==
    IF fl = "html"
    THEN <<"conv">> \o (IF has_local THEN <<"local">> ELSE <<>>) \o <<"html">>
    ELSE <<"conv", "builtin">> \o (IF has_local THEN <<"local">> ELSE <<>>)

\* the providers with the modules named with -m last
Providers(fl, has_local, has_hooks) ==
    ProviderOrder(fl, has_local) \o (IF has_hooks THEN <<"hooks">> ELSE <<>>)

\* register_macros(obj): self.macros[key[6:]] = getattr(obj, key)
\* register_macros keeping a name's earlier handler
RegisterIntoKeep(reg, names, obj) ==
    [n \in (DOMAIN reg) \cup names |-> IF n \in DOMAIN reg THEN reg[n] ELSE obj]

RegisterInto(reg, names, obj) ==
    [n \in (DOMAIN reg) \cup names |-> IF n \in names THEN obj ELSE reg[n]]

\* a module named with -m whose Macros class defines macro_postproc_bullets:
\* the hook returns its argument with '*hook*' appended
PostprocBullets(result) == result \o <<"*", "hook", "*">>

END_DOCUMENT_NIL == <<>>
END_DOCUMENT_PLAIN == <<"\\bibliographystyle{plain}\\bibliography{papers}\\end{document}">>
END_DOCUMENT_HTML == <<"</body></html>">>

\* the providers that carry an end_document attribute
Holders == {"builtin", "local", "html"}

(***************************************************************************)
(* Macros called with one argument: block macros get the accumulated       *)
(* lines, startline macros the argument string (or None).  Each gives      *)
(* [raises, out, ed]: the exception raised ("-" for none), the text        *)
(* returned, and the providers' end_document attributes afterwards.        *)
(***************************************************************************)
\* re.split(r'\t+', line)
RECURSIVE SeparateTabs(_)
SeparateTabs(line) ==
    LET k == RunLen(NotSet({"\t"}), line, 0)
        r == RunLen(Lit("\t"), line, k)
    IN  IF r = 0 THEN <<line>>
        ELSE <<Slice(line, 0, k)>>
             \o (CHOOSE fs \in {SeparateTabs(tl) :
                                 tl \in {Slice(line, k + r, Len(line))}} : TRUE)

\* anypaper: info['title0'] after all lines are read, as <<value>>;
\* <<>> when the key was never set
RECURSIVE Title0(_, _)
Title0(lines, sofar) ==
    IF lines = <<>> THEN sofar
    ELSE LET f == SeparateTabs(Head(lines))
         IN  Title0(Tail(lines),
                    IF f[1] = <<"title">> /\ Len(f) >= 2 THEN <<f[2]>> ELSE sofar)

\* anypaper raises IndexError on an author line without a name
AuthorLineBad(lines) ==
    \E i \in 1..Len(lines) :
        LET f == SeparateTabs(lines[i]) IN f[1] = <<"author">> /\ Len(f) < 2

\* TECHREPORT, NICTATR: the template of provider obj filled with title0
Template(obj, title0) ==
    IF obj = "html"
    THEN <<"<html><head><title>">> \o title0 \o <<"</title><body><h1>">> \o title0
         \o <<"</h1>", "\n">>
    ELSE <<"\\begin{document}\\title{">> \o title0 \o <<"}\\maketitle", "\n">>

\* TEMPLATE % anypaper(block_lines): KeyError unless title0 is given
Paper(obj, lines, ed) ==
    IF AuthorLineBad(lines) THEN [raises |-> "IndexError", out |-> <<>>, ed |-> ed]
    ELSE IF Title0(lines, <<>>) = <<>>
    THEN [raises |-> "KeyError", out |-> <<>>, ed |-> ed]
    ELSE [raises |-> "-", ed |-> ed, out |-> Template(obj, Title0(lines, <<>>)[1])]

\* the argument of a one-argument macro: a list of lines, a string or None
LinesArg(lines) == [k |-> "lines", v |-> lines]
StrArg(s) == [k |-> "str", v |-> s]
NoneArg == [k |-> "none"]

\* the document-type macros modelled
DocTypes == {"techreport", "nictatr"}

\* self.end_document = END_DOCUMENT...: the epilogue a document-type macro
\* of provider obj selects
SelectedEpilogue(obj) ==
    IF obj = "html" THEN END_DOCUMENT_HTML ELSE END_DOCUMENT_PLAIN

\* macro_techreport, macro_nictatr of the three providers
DocTypeMacro(fl, name, obj, arg, ed) ==
    LET ed1 == [ed EXCEPT ![obj] = SelectedEpilogue(obj)]
    IN  IF name = "techreport" /\ obj = "builtin"
        THEN \* Converter of texdown2latex.py has no make_author_joined
             [raises |-> "AttributeError", out |-> <<>>, ed |-> ed1]
        ELSE IF arg.k = "none"
        THEN [raises |-> "TypeError", out |-> <<>>, ed |-> ed1]
        ELSE IF arg.k = "str"
        THEN \* anypaper reads a string character by character: no title0
             [raises |-> "KeyError", out |-> <<>>, ed |-> ed1]
        ELSE Paper(obj, arg.v, ed1)

\* macro_floatgraphic: ',' in args raises on None
GraphicMacro(arg, ed) ==
    IF arg.k = "none"
    THEN [raises |-> "TypeError", out |-> <<>>, ed |-> ed]
    ELSE IF arg.k = "lines"
    THEN [raises |-> "AttributeError", out |-> <<>>, ed |-> ed]
    ELSE [raises |-> "-", ed |-> ed,
          out |-> <<"\\begin{figure}[htb]", "\n", "\\includegraphics{figures/">>
                  \o arg.v \o <<"}", "\n", "\\end{figure}">>]

\* macro_end_document: return self.end_document
EndDocumentMacro(obj, ed) == [raises |-> "-", out |-> ed[obj], ed |-> ed]

\* handler(arg) for the handler registered under name by provider obj
CallMacro(fl, name, obj, arg, ed) ==
    CASE name \in DocTypes -> DocTypeMacro(fl, name, obj, arg, ed)
      [] name = "floatgraphic" -> GraphicMacro(arg, ed)
      [] name = "end_document" -> EndDocumentMacro(obj, ed)
      [] OTHER -> \* a pattern handler called with one argument
                  [raises |-> "TypeError", out |-> <<>>, ed |-> ed]

(***************************************************************************)
(* Bounds and inputs                                                       *)
(***************************************************************************)
MaxLines == 3        \* lines of the document of a Converter's first call
MaxCalls == 2        \* conversions on one Converter

\* The lines documents are made of; each is followed by a line break.
\* A document draws its lines from one family.
ReportLines ==
    { <<"\t", "title", "\t", "a", "\t", "!", "!", "techreport">>,
      <<"\t", "b">>,
      <<>> }

AbortLines ==
    { <<"\t", "title", "\t", "a", "\t", "!", "!", "nictatr">>,
      <<"\t", "b", "\t", "!", "!", "nosuch">>,
      <<"\t", "b">> }

\* a directive on a line of its own, then the lines it applies to
MarkerLines ==
    { <<"\t", "\t", "!", "!", "techreport">>,
      <<"\t", "title", "\t", "a">> }

BlockLines == ReportLines \cup AbortLines

NumberLines ==
    { <<" ", "3", ".", " ", "third">>,
      <<" ", "1", ".", " ", "first">>,
      <<"a", "_", "b">> }

DirectiveLines ==
    { <<"!", "!", "floatgraphic", " ", "a">>,
      <<"!", "!", "nosuch">>,
      <<" ", "3", ".", " ", "third">> }

\* a numbered line and a numbered line indented one space deeper
NestedLines ==
    { <<" ", "1", ".", " ", "first">>,
      <<" ", " ", "3", ".", " ", "third">> }

\* mathematics followed by a percent sign; a percent sign at the start and
\* one inside a line
MathLines ==
    { <<"$", "x", "$", "%">>,
      <<"%", "a", "%">> }

\* a startline directive and a one-line block: one before the other, and
\* two block lines in a row
MixedLines ==
    { <<"!", "!", "floatgraphic", " ", "a">>,
      <<"\t", "title", "\t", "a", "\t", "!", "!", "techreport">> }

\* a list item and an empty line
GapLines ==
    { <<" ", "*", "item", " ", "one">>,
      <<>> }

ListLines == NumberLines \cup DirectiveLines

StarLines ==
    { <<"*", "item", " ", "one">>,
      <<"*", "item", " ", "two">> }

BulletLines ==
    { <<" ", "*", "item", " ", "one">>,
      <<" ", "*", "item", " ", "two">> }

Families ==
    {ReportLines, AbortLines, MarkerLines, NumberLines, NestedLines, DirectiveLines,
     StarLines, BulletLines, MathLines, MixedLines, GapLines}

RECURSIVE JoinLines(_)
JoinLines(ls) ==
    IF ls = <<>> THEN <<>> ELSE Head(ls) \o <<"\n">> \o JoinLines(Tail(ls))

DocumentsOver(lines, max) ==
    UNION { { JoinLines(ls) : ls \in [1..n -> lines] } : n \in 0..max }

\* the documents of a Converter's first call
FirstDocuments == UNION { DocumentsOver(F, MaxLines) : F \in Families }

\* the documents converted with a post-processing hook loaded
HookDocuments == DocumentsOver(BulletLines, MaxLines)

\* the documents of a later call: the empty document and those of one line
LaterDocuments ==
    {<<>>} \cup { JoinLines(<<l>>) : l \in BlockLines \cup ListLines }

(***************************************************************************)
(* State                                                                   *)
(***************************************************************************)
VARIABLES
    fl,           \* output format: "html" (texdown.py) or "latex" (texdown2latex.py)
    has_local,    \* localmacros could be imported
    pending,      \* providers __init__ has still to register
    macros,       \* self.macros: name -> provider whose handler is registered
    end_document, \* the end_document attribute of each provider object
    block_cmd,    \* self.block_cmd (None or the directive's name)
    block_accum,  \* self.block_accum
    enum_depth,   \* self.enum_depth
    pc,           \* "construct", "constructed", "ready", "run", "epilogue",
                  \* "returned", "failed"
    texdown,      \* the document handed to convert
    stack,        \* the active do_convert calls, outermost first
    output,       \* the text convert has built; None before it returns
    error,        \* the exception that ended the call, NoError for none
    log,          \* the handler and macro invocations of the current call
    ncalls,       \* conversions started on this Converter
    conversions,       \* the rule table a load builds: name -> field -> value
    conversions_order, \* the rule names in declaration order
    txt,               \* the rule specifications handed to the loader
    load,              \* the loader's position; "static" while a Converter runs
    written,           \* what the driver wrote to the output file or stdout
    has_hooks          \* a module with a post-processing hook is loaded

vars == <<fl, has_local, pending, macros, end_document, block_cmd, block_accum,
          enum_depth, pc, texdown, stack, output, error, log, ncalls,
          conversions, conversions_order, txt, load, written, has_hooks>>

\* what no step of a conversion assigns
rest == <<fl, has_local, has_hooks, conversions, conversions_order, txt, load,
          written>>

\* self.block_cmd = None, written as a name no directive has
NoDirective == "None"

NoError == [kind |-> "-"]
NoOutput == [k |-> "none"]
Text(t) == [k |-> "text", v |-> t]

Init ==
    /\ fl \in {"html", "latex"}
    /\ has_local \in BOOLEAN
    /\ has_hooks \in BOOLEAN
    /\ pending = Providers(fl, has_local, has_hooks)
    /\ macros = <<>>
    /\ end_document = [o \in Holders |-> END_DOCUMENT_NIL]
    /\ block_cmd = NoDirective
    /\ block_accum = <<>>
    /\ enum_depth = 0
    /\ pc = "construct"
    /\ texdown = <<>>
    /\ stack = <<>>
    /\ output = NoOutput
    /\ error = NoError
    /\ log = <<>>
    /\ ncalls = 0
    /\ conversions = <<>>
    /\ conversions_order = CONVERSIONS_ORDER
    /\ txt = <<>>
    /\ load = "static"
    /\ written = NoOutput

\* Converter.__init__: one register_macros call
RegisterMacros ==
    /\ pc = "construct"
    /\ pending # <<>>
    /\ macros' = RegisterInto(macros, MacroNames(fl, Head(pending)), Head(pending))
    /\ pending' = Tail(pending)
    /\ pc' = IF Tail(pending) # <<>> THEN "construct"
             ELSE IF fl = "latex" THEN "ready" ELSE "constructed"
    /\ UNCHANGED <<rest, texdown, end_document, block_cmd, block_accum, enum_depth,
                   stack, output, error, log, ncalls>>

(***************************************************************************)
(* do_convert / convert_one.  A frame is one do_convert call: its text,    *)
(* its rule names, the matches convert_one found, the index of the pair    *)
(* the generator yields next, the pair being processed and the result      *)
(* list so far.  phase says where the call stands: "gen" (about to resume  *)
(* the generator), "pre_wait" (inside do_convert(pre_match, children)),    *)
(* "incl_wait" (inside do_convert(match, conv['incl'])).                   *)
(***************************************************************************)
NewFrame(text, names) ==
    [text |-> text, names |-> names, ms |-> FindIter(Match(names[1]), text),
     idx |-> 1, pre |-> <<>>, mat |-> <<>>, yld |-> <<>>, result |-> <<>>,
     phase |-> "gen"]

\* open_start, open_end and before_match of match idx (1-based)
\* open_start computed with the comparison turned round
OpenStartNoSlack(ms, idx) ==
    IF idx > 1 THEN ms[idx].start >= ms[idx - 1].end ELSE TRUE

OpenStart(ms, idx) ==
    IF idx > 1 THEN ms[idx].start - 1 > ms[idx - 1].end ELSE TRUE

\* open_end computed without the one character of slack
OpenEndNoSlack(ms, idx) ==
    IF idx < Len(ms) THEN ms[idx].end < ms[idx + 1].start ELSE TRUE

OpenEnd(ms, idx) ==
    IF idx < Len(ms) THEN ms[idx].end + 1 < ms[idx + 1].start ELSE TRUE

\* before_match starting one character after the match before
BeforeMatchSkip(t, ms, idx) ==
    IF idx > 1 THEN Slice(t, ms[idx - 1].end + 1, ms[idx].start)
    ELSE Slice(t, 0, ms[idx].start)

BeforeMatch(t, ms, idx) ==
    IF idx > 1 THEN Slice(t, ms[idx - 1].end, ms[idx].start)
    ELSE Slice(t, 0, ms[idx].start)

\* texdown[matches[-1].end():]
AfterLast(t, ms) == Slice(t, ms[Len(ms)].end, Len(t))

SetTop(st, f) == [st EXCEPT ![Len(st)] = f]

\* result.append(pre_match); result.append(match)
AppendPair(st) ==
    LET f == st[Len(st)]
    IN  SetTop(st, [f EXCEPT !.result = @ \o f.pre \o f.mat, !.idx = @ + 1,
                             !.phase = "gen"])

\* if 'incl' in conv: match = self.do_convert(match, conv['incl'])
AfterPre(st) ==
    LET f == st[Len(st)]
    IN  IF Incl(f.names[1]) # <<>>
        THEN Append(SetTop(st, [f EXCEPT !.phase = "incl_wait"]),
                    NewFrame(f.mat, Incl(f.names[1])))
        ELSE AppendPair(st)

\* the loop body of do_convert for the pair (pre, mat) just yielded
Yielded(st, pre, mat) ==
    LET f == st[Len(st)]
        g == [f EXCEPT !.pre = pre, !.mat = mat, !.yld = mat]
    IN  IF Tail(f.names) # <<>>
        THEN Append(SetTop(st, [g EXCEPT !.phase = "pre_wait"]),
                    NewFrame(pre, Tail(f.names)))
        ELSE AfterPre(SetTop(st, g))

\* the caller's do_convert gets the value an inner do_convert returned
Deliver(st, value) ==
    LET f == st[Len(st)]
    IN  IF f.phase = "pre_wait" THEN AfterPre(SetTop(st, [f EXCEPT !.pre = value]))
        ELSE AppendPair(SetTop(st, [f EXCEPT !.mat = value]))

Running == pc = "run" /\ stack # <<>>
Top == stack[Len(stack)]
TopRule == Top.names[1]
\* where the generator of the innermost call stands
AtNoMatch == Running /\ Top.phase = "gen" /\ Top.ms = <<>> /\ Top.idx = 1
AtMatch == Running /\ Top.phase = "gen" /\ Top.idx <= Len(Top.ms)
AtTrailing ==
    Running /\ Top.phase = "gen" /\ Top.ms # <<>> /\ Top.idx = Len(Top.ms) + 1
AtExhausted == Running /\ Top.phase = "gen" /\ ~(AtNoMatch \/ AtMatch \/ AtTrailing)
\* the matches taken from the right
CurMatchFromRight == Top.ms[Len(Top.ms) + 1 - Top.idx]
CurMatch == Top.ms[Top.idx]
CurOpenStart == OpenStart(Top.ms, Top.idx)
CurOpenEnd == OpenEnd(Top.ms, Top.idx)
CurBefore == BeforeMatch(Top.text, Top.ms, Top.idx)
\* print("*** Error while converting line %d:" % (nl_count + 1))
CurLine == CountNewlines(Top.text, CurMatch.start) + 1

\* where in its text the gap a call handed to lower-priority rules starts
GapStart(f) ==
    IF f.ms = <<>> \/ f.idx = 1 THEN 0 ELSE f.ms[f.idx - 1].end

\* the offset in the document of the text of the i-th active call, when the
\* calls outside it all wait for a gap
RECURSIVE SourceOffset(_)
SourceOffset(i) ==
    IF i = 1 THEN 0 ELSE SourceOffset(i - 1) + GapStart(stack[i - 1])

\* the offsets in the document of the current match and of the gap before it
MatchAt == SourceOffset(Len(stack)) + CurMatch.start
GapAt == SourceOffset(Len(stack)) + GapStart(Top)

\* the handler convert_one calls for the rule: self.macros[conv['func']]
HandlerIs(name, func, objs) ==
    /\ Func(name) = func
    /\ func \in DOMAIN macros
    /\ macros[func] \in objs

\* an exception leaves convert: the call is over, nothing is returned
Raised(kind, msg, line) ==
    /\ pc' = "failed"
    /\ stack' = <<>>
    /\ output' = NoOutput
    /\ error' = [kind |-> kind, msg |-> msg, line |-> line]

\* postprocess_handler = self.macros.get('postproc_%s' % (match_name))
HasPostproc(name) == ("postproc_" \o name) \in DOMAIN macros

\* if postprocess_handler: result = postprocess_handler(result)
Postprocess(name, result) ==
    IF HasPostproc(name) THEN PostprocBullets(result) ELSE result

\* the handler returned: the generator yields (before_match, result)
Returned(out) ==
    /\ pc' = pc
    /\ stack' = Yielded(stack, CurBefore, Postprocess(TopRule, out))
    /\ UNCHANGED <<output, error>>

\* Converter.__call__ of texdown.py, first statement: self.reset().  The
\* results of the call before are those of a call that is over.
Reset ==
    /\ fl = "html"
    /\ pc \in {"constructed", "returned", "failed"}
    /\ ncalls < MaxCalls
    /\ ncalls' = ncalls + 1
    /\ enum_depth' = 0
    /\ pc' = "ready"
    /\ output' = NoOutput
    /\ error' = NoError
    /\ log' = <<>>
    /\ texdown' = <<>>
    /\ UNCHANGED <<rest, pending, macros, end_document, block_cmd,
                   block_accum, stack>>

\* convert(texdown, magic = True): do_convert(texdown, CONVERSIONS_ORDER) is
\* entered.  texdown.py calls it from __call__, texdown2latex.py once from
\* __init__, which has set enum_depth to 0.
Convert(doc) ==
    /\ pc = "ready"
    /\ texdown' = doc
    /\ stack' = <<NewFrame(doc, CONVERSIONS_ORDER)>>
    /\ pc' = "run"
    /\ ncalls' = IF fl = "latex" THEN ncalls + 1 ELSE ncalls
    /\ UNCHANGED <<rest, pending, macros, end_document, block_cmd,
                   block_accum, enum_depth, output, error, log>>

\* convert_one, no match: yield texdown, ''
YieldNoMatch ==
    /\ AtNoMatch
    /\ stack' = Yielded(stack, Top.text, <<>>)
    /\ UNCHANGED <<rest, texdown, pending, macros, end_document, block_cmd,
                   block_accum, enum_depth, pc, output, error, log, ncalls>>

\* convert_one, after the last match: yield texdown[matches[-1].end():], ''
YieldTrailing ==
    /\ AtTrailing
    /\ stack' = Yielded(stack, AfterLast(Top.text, Top.ms), <<>>)
    /\ UNCHANGED <<rest, texdown, pending, macros, end_document, block_cmd,
                   block_accum, enum_depth, pc, output, error, log, ncalls>>

\* convert_one, a rule with a literal template: match.expand(conv['repl'])
ApplyRepl ==
    /\ AtMatch /\ HasRepl(fl, TopRule)
    /\ Returned(Expand(Repl(fl, TopRule), Top.text, CurMatch))
    /\ UNCHANGED <<rest, texdown, pending, macros, end_document, block_cmd,
                   block_accum, enum_depth, log, ncalls>>

\* convert_one, a rule with neither func nor repl: raise NotImplementedError()
\* (outside the try, so no line is printed: line 0)
NotImplemented ==
    /\ AtMatch /\ ~HasFunc(TopRule) /\ ~HasRepl(fl, TopRule)
    /\ Raised("NotImplementedError", "", 0)
    /\ UNCHANGED <<rest, texdown, pending, macros, end_document, block_cmd,
                   block_accum, enum_depth, log, ncalls>>

\* do_convert: return ''.join(result)
Return ==
    /\ AtExhausted
    /\ IF Len(stack) = 1
       THEN /\ stack' = <<>>
            /\ pc' = "epilogue"
            /\ output' = Text(Top.result)
       ELSE /\ \E st \in {SubSeq(stack, 1, Len(stack) - 1)}, value \in {Top.result} :
                 stack' = Deliver(st, value)
            /\ UNCHANGED <<pc, output>>
    /\ UNCHANGED <<rest, texdown, pending, macros, end_document, block_cmd,
                   block_accum, enum_depth, error, log, ncalls>>

(***************************************************************************)
(* Handlers                                                                *)
(***************************************************************************)
Marker == <<"\t", "!", "!">>

\* a search that takes the end of a line without marker for an empty directive
MarkerAtOrEnd(line) ==
    {p \in 0..(Len(line) - 3) : Slice(line, p, p + 3) = Marker} \cup {Len(line)}

\* the offsets at which '\t!!' occurs in line
MarkerAt(line) ==
    {p \in 0..(Len(line) - 3) : Slice(line, p, p + 3) = Marker}

Max(S) == CHOOSE x \in S : \A y \in S : y <= x

\* line.rsplit('\t!!', 1): split at the last marker
RSplitMarker(line) ==
    LET p == Max(MarkerAt(line))
    IN  <<Slice(line, 0, p), Slice(line, p + 3, Len(line))>>

\* macro_block_cmd(match, open_start, open_end), with the block macro it calls
MacroBlockCmd ==
    /\ AtMatch /\ HandlerIs(TopRule, "block_cmd", {"conv"})
    /\ \E line0 \in {Group(Top.text, CurMatch, 1)},
          os \in {CurOpenStart}, oe \in {CurOpenEnd} :
           IF os /\ MarkerAt(line0) = {}
           THEN /\ Raised("ConversionError", "Block does not end with \\t!!macroname",
                          CurLine)
                /\ log' = Append(log, [h |-> "block_cmd", at |-> MatchAt, gap |-> GapAt,
                                  idx |-> Top.idx, os |-> os,
                                       oe |-> oe, depth |-> Len(stack),
                                       raised |-> TRUE])
                /\ UNCHANGED <<block_cmd, block_accum, end_document>>
           ELSE \E line \in {IF os THEN RSplitMarker(line0)[1] ELSE line0},
                   cmd \in {IF os THEN Join(RSplitMarker(line0)[2]) ELSE block_cmd} :
                \E accum \in {IF StripNonEmpty(line) THEN Append(block_accum, line)
                               ELSE block_accum},
                   entry \in {[h |-> "block_cmd", at |-> MatchAt, gap |-> GapAt,
                                  idx |-> Top.idx, os |-> os,
                               oe |-> oe, depth |-> Len(stack)]} :
                    IF ~oe
                    THEN /\ block_cmd' = cmd
                         /\ block_accum' = accum
                         /\ Returned(<<>>)
                         /\ log' = Append(log, entry @@ [raised |-> FALSE, out |-> <<>>])
                         /\ UNCHANGED end_document
                    ELSE IF cmd \notin DOMAIN macros
                    THEN \* handler = self.macros[self.block_cmd]: KeyError
                         /\ block_cmd' = cmd
                         /\ block_accum' = accum
                         /\ Raised("KeyError", cmd, CurLine)
                         /\ log' = Append(log, entry @@ [raised |-> TRUE])
                         /\ UNCHANGED end_document
                    ELSE \E r \in {CallMacro(fl, cmd, macros[cmd], LinesArg(accum),
                                               end_document)} :
                         LET call == [h |-> "macro", via |-> "block", at |-> MatchAt, gap |-> GapAt, name |-> cmd,
                                      obj |-> macros[cmd], arg |-> LinesArg(accum),
                                      idx |-> Top.idx, raises |-> r.raises,
                                      out |-> r.out]
                         IN  /\ end_document' = r.ed
                             /\ IF r.raises # "-"
                                THEN /\ block_cmd' = cmd
                                     /\ block_accum' = accum
                                     /\ Raised(r.raises, cmd, CurLine)
                                     /\ log' = log \o <<call, entry @@ [raised |-> TRUE]>>
                                ELSE /\ block_cmd' = NoDirective
                                     /\ block_accum' = <<>>
                                     /\ Returned(r.out)
                                     /\ log' = log \o <<call, entry @@
                                                 [raised |-> FALSE, out |-> r.out]>>
    /\ UNCHANGED <<rest, texdown, pending, macros, enum_depth, ncalls>>

\* the lookup's KeyError let through
NotFoundKeyError(command) == [kind |-> "KeyError", msg |-> command]

\* except KeyError: raise ConversionError("Macro '%s' not found." % (command))
NotFound(command) ==
    [kind |-> "ConversionError", msg |-> "Macro '" \o command \o "' not found."]

\* macro_startline_cmd(match), with the macro it calls
MacroStartlineCmd ==
    /\ AtMatch /\ HandlerIs(TopRule, "startline_cmd", {"conv"})
    /\ LET command == Join(Group(Top.text, CurMatch, 1))
           args == IF GroupIsNone(CurMatch, 2) THEN NoneArg
                   ELSE StrArg(Group(Top.text, CurMatch, 2))
           entry == [h |-> "startline_cmd", at |-> MatchAt, gap |-> GapAt,
                                  idx |-> Top.idx, command |-> command]
       IN  IF command \notin DOMAIN macros
           THEN /\ Raised(NotFound(command).kind, NotFound(command).msg, CurLine)
                /\ log' = Append(log, entry @@ [raised |-> TRUE])
                /\ UNCHANGED end_document
           ELSE LET r == CallMacro(fl, command, macros[command], args, end_document)
                    call == [h |-> "macro", via |-> "startline", at |-> MatchAt, gap |-> GapAt, name |-> command,
                             obj |-> macros[command], arg |-> args, idx |-> Top.idx,
                             raises |-> r.raises, out |-> r.out]
                IN  /\ end_document' = r.ed
                    /\ IF r.raises # "-"
                       THEN /\ Raised(r.raises, command, CurLine)
                            /\ log' = log \o <<call, entry @@ [raised |-> TRUE]>>
                       ELSE /\ Returned(r.out)
                            /\ log' = log \o <<call, entry @@
                                        [raised |-> FALSE, out |-> r.out]>>
    /\ UNCHANGED <<rest, texdown, pending, macros, block_cmd, block_accum,
                   enum_depth, ncalls>>

\* macro_bullets of texdown2latex.py's Converter and of texdown2html.py's
\* Macros: the same text
MacroBullets ==
    /\ AtMatch /\ HandlerIs(TopRule, "bullets", {"conv", "html"})
    /\ LET os == CurOpenStart
           oe == CurOpenEnd
           out == (IF os THEN <<"\\begin{itemize}", "\n">> ELSE <<>>)
                  \o <<"\t", "\\item", " ">> \o Group(Top.text, CurMatch, 2) \o <<"\n">>
                  \o (IF oe THEN <<"\\end{itemize}", "\n">> ELSE <<>>)
       IN  /\ Returned(out)
           /\ log' = Append(log, [h |-> "bullets", at |-> MatchAt, gap |-> GapAt,
                                  idx |-> Top.idx, os |-> os,
                                  oe |-> oe, raised |-> FALSE, out |-> out,
                                  depth |-> Len(stack)])
    /\ UNCHANGED <<rest, texdown, pending, macros, end_document, block_cmd,
                   block_accum, enum_depth, ncalls>>

\* int(match.group(2))
RECURSIVE ToInt(_)
DigitValue(c) ==
    CASE c = "0" -> 0 [] c = "1" -> 1 [] c = "2" -> 2 [] c = "3" -> 3 [] c = "4" -> 4
      [] c = "5" -> 5 [] c = "6" -> 6 [] c = "7" -> 7 [] c = "8" -> 8 [] c = "9" -> 9
ToInt(ds) ==
    IF ds = <<>> THEN 0
    ELSE 10 * ToInt(SubSeq(ds, 1, Len(ds) - 1)) + DigitValue(ds[Len(ds)])

\* '%d' % n
RECURSIVE NatStr(_)
DigitStr(d) ==
    CASE d = 0 -> "0" [] d = 1 -> "1" [] d = 2 -> "2" [] d = 3 -> "3" [] d = 4 -> "4"
      [] d = 5 -> "5" [] d = 6 -> "6" [] d = 7 -> "7" [] d = 8 -> "8" [] d = 9 -> "9"
NatStr(n) == IF n < 10 THEN DigitStr(n) ELSE NatStr(n \div 10) \o DigitStr(n % 10)
IntStr(n) == IF n < 0 THEN "-" \o NatStr(0 - n) ELSE NatStr(n)

\* 'enum' + 'i' * depth
RECURSIVE Times(_, _)
Times(c, n) == IF n <= 0 THEN "" ELSE c \o Times(c, n - 1)
EnumVar(depth) == "enum" \o Times("i", depth)

\* Converter.macro_numbers of texdown2latex.py
MacroNumbers ==
    /\ AtMatch /\ HandlerIs(TopRule, "numbers", {"conv"})
    /\ LET os == CurOpenStart
           oe == CurOpenEnd
           enum_number == ToInt(Group(Top.text, CurMatch, 2))
           depth1 == IF os THEN enum_depth + 1 ELSE enum_depth
           out == (IF os THEN <<"\\begin{enumerate}", "\n">> ELSE <<>>)
                  \o (IF os /\ enum_number # 1
                      THEN <<"\\setcounter{", EnumVar(depth1), "}{",
                             IntStr(enum_number - 1), "}", "\n">>
                      ELSE <<>>)
                  \o <<"\t", "\\item", " ">> \o Group(Top.text, CurMatch, 3) \o <<"\n">>
                  \o (IF oe THEN <<"\\end{enumerate}", "\n">> ELSE <<>>)
       IN  /\ enum_depth' = IF oe THEN depth1 - 1 ELSE depth1
           /\ Returned(out)
           /\ log' = Append(log, [h |-> "numbers", at |-> MatchAt, gap |-> GapAt,
                                  idx |-> Top.idx, os |-> os,
                                  oe |-> oe, raised |-> FALSE, out |-> out,
                                  depth |-> Len(stack),
                                  indent |-> Len(Group(Top.text, CurMatch, 1)),
                                  number |-> enum_number, level |-> depth1])
    /\ UNCHANGED <<rest, texdown, pending, macros, end_document, block_cmd,
                   block_accum, ncalls>>

\* Macros.macro_numbers of texdown2html.py: the Macros object has no
\* enum_depth attribute, so opening or closing a list raises
MacroNumbersHtml ==
    /\ AtMatch /\ HandlerIs(TopRule, "numbers", {"html"})
    /\ LET os == CurOpenStart
           oe == CurOpenEnd
       IN  IF os \/ oe
           THEN /\ Raised("AttributeError", "enum_depth", CurLine)
                /\ log' = Append(log, [h |-> "numbers", at |-> MatchAt, gap |-> GapAt,
                                  idx |-> Top.idx, os |-> os,
                                       oe |-> oe, raised |-> TRUE,
                                       depth |-> Len(stack)])
           ELSE LET out == <<"\t", "\\item", " ">> \o Group(Top.text, CurMatch, 3)
                           \o <<"\n">>
                IN  /\ Returned(out)
                    /\ log' = Append(log, [h |-> "numbers", at |-> MatchAt, gap |-> GapAt,
                                  idx |-> Top.idx,
                                           os |-> os, oe |-> oe, raised |-> FALSE,
                                           out |-> out, depth |-> Len(stack)])
    /\ UNCHANGED <<rest, texdown, pending, macros, end_document, block_cmd,
                   block_accum, enum_depth, ncalls>>

\* convert, magic: texdown += self.macros['end_document'](None)
EndDocument ==
    /\ pc = "epilogue"
    /\ "end_document" \in DOMAIN macros
    /\ LET obj == macros["end_document"]
           r == CallMacro(fl, "end_document", obj, NoneArg, end_document)
       IN  /\ output' = Text(output.v \o r.out)
           /\ log' = Append(log, [h |-> "macro", via |-> "driver",
                                  name |-> "end_document", obj |-> obj,
                                  arg |-> NoneArg, idx |-> 0, raises |-> r.raises,
                                  out |-> r.out])
    /\ pc' = "returned"
    /\ UNCHANGED <<rest, texdown, pending, macros, end_document, block_cmd,
                   block_accum, enum_depth, stack, error, ncalls>>

(***************************************************************************)
(* The driver: run_specialised_converter of texdown.py and the main block  *)
(* of texdown2latex.py convert one document and write the result.          *)
(***************************************************************************)
\* the driver's only conversion is over
DriverCall == ncalls = 1

\* a driver that writes whatever the call left behind
MayWriteAlways == DriverCall /\ pc \in {"returned", "failed"}

\* c(data) returned: control reaches the statements that write
MayWrite == DriverCall /\ pc = "returned"

\* handle.write(output) / sys.stdout.write(output)
WriteOutput ==
    /\ MayWrite
    /\ written' = output
    /\ pc' = "written"
    /\ UNCHANGED <<fl, has_local, has_hooks, conversions, conversions_order, txt,
                   load, texdown, pending, macros, end_document, block_cmd,
                   block_accum, enum_depth, stack, output, error, log, ncalls>>

\* c(data) raised: ConversionError is reported and sys.exit(1) is called,
\* any other exception ends the process with a traceback
Exit ==
    /\ DriverCall
    /\ pc = "failed"
    /\ pc' = "exited"
    /\ UNCHANGED <<rest, texdown, pending, macros, end_document, block_cmd,
                   block_accum, enum_depth, stack, output, error, log, ncalls>>

Next ==
    \/ RegisterMacros
    \/ Reset
    \/ pc = "ready" /\ ~has_hooks /\ ncalls <= 1
          /\ \E doc \in FirstDocuments : Convert(doc)
    \/ pc = "ready" /\ ~has_hooks /\ ncalls > 1
          /\ \E doc \in LaterDocuments : Convert(doc)
    \/ pc = "ready" /\ has_hooks /\ \E doc \in HookDocuments : Convert(doc)
    \/ YieldNoMatch
    \/ MacroBlockCmd
    \/ MacroStartlineCmd
    \/ MacroBullets
    \/ MacroNumbers
    \/ MacroNumbersHtml
    \/ ApplyRepl
    \/ NotImplemented
    \/ YieldTrailing
    \/ Return
    \/ EndDocument
    \/ WriteOutput
    \/ Exit

Spec == Init /\ [][Next]_vars

(***************************************************************************)
(* Loading the rule tables.  A rule specification is a sequence of lines;  *)
(* a line is a sequence of symbols: "\t", ":", " ", or a word.             *)
(***************************************************************************)
MaxBaseLines == 4
MaxPatchLines == 3

\* str.split(sep) of a line: the pieces between the separators
RECURSIVE SplitOn(_, _)
SplitOn(s, sep) ==
    IF \A i \in 1..Len(s) : s[i] # sep THEN <<s>>
    ELSE LET p == CHOOSE i \in 1..Len(s) :
                      s[i] = sep /\ \A j \in 1..(i - 1) : s[j] # sep
         IN  <<SubSeq(s, 1, p - 1)>> \o SplitOn(SubSeq(s, p + 1, Len(s)), sep)

\* str.split('\t', 1): at most one split
SplitOnce(s, sep) ==
    IF \A i \in 1..Len(s) : s[i] # sep THEN <<s>>
    ELSE LET p == CHOOSE i \in 1..Len(s) :
                      s[i] = sep /\ \A j \in 1..(i - 1) : s[j] # sep
         IN  <<SubSeq(s, 1, p - 1), SubSeq(s, p + 1, Len(s))>>

EmptyDict == [k \in {} |-> <<>>]

\* d[k] = v on a dict
DictSet(d, k, v) ==
    [x \in DOMAIN d \cup {k} |-> IF x = k THEN v ELSE d[x]]

\* dict.update
DictUpdate(d, e) ==
    [x \in DOMAIN d \cup DOMAIN e |-> IF x \in DOMAIN e THEN e[x] ELSE d[x]]

\* the value extract_conversions stores for a field
FieldValue(key, value) ==
    IF key = <<"match">> THEN [compiled |-> value]
    ELSE IF key = <<"incl">> THEN SplitOn(value, " ")
    ELSE value

\* one iteration of the loop of extract_conversions on state st; hlname is
\* <<>> for None and <<name>> for a name
ExtractLine(st, line) ==
    IF st.err # "-" THEN st
    ELSE IF ~StripNonEmpty(line) THEN st
    ELSE IF line[1] = "\t"
    THEN LET kv == SplitOnce(Tail(line), "\t")
         IN  IF Len(kv) # 2 THEN [st EXCEPT !.err = "ValueError"]
             ELSE IF st.hlname = <<>> THEN [st EXCEPT !.err = "KeyError"]
             ELSE [st EXCEPT !.conversions =
                       DictSet(@, st.hlname[1],
                               DictSet(@[st.hlname[1]], Join(kv[1]),
                                       FieldValue(kv[1], kv[2])))]
    ELSE LET name == SubSeq(line, 1, Len(line) - 1)
         IN  [st EXCEPT !.hlname = <<name>>,
                        !.conversions = DictSet(@, name, EmptyDict),
                        !.order = Append(@, name)]

RECURSIVE ExtractFrom(_, _)
ExtractFrom(st, lines) ==
    IF lines = <<>> THEN st
    ELSE ExtractFrom(ExtractLine(st, Head(lines)), Tail(lines))

\* extract_conversions(conversions_txt); err is the exception it raises
ExtractConversions(lines) ==
    ExtractFrom([conversions |-> EmptyDict, order |-> <<>>,
                 hlname |-> <<>>, err |-> "-"], lines)

\* a variant that also adds the rules only the patch has
UpdateConversionsAdd(convs, extra) ==
    [n \in DOMAIN convs \cup DOMAIN extra |->
        IF n \in DOMAIN convs /\ n \in DOMAIN extra
        THEN DictUpdate(convs[n], extra[n])
        ELSE IF n \in DOMAIN convs THEN convs[n] ELSE extra[n]]

\* the loop of update_conversions over extra.items()
UpdateConversions(convs, extra) ==
    [n \in DOMAIN convs |->
        IF n \in DOMAIN extra THEN DictUpdate(convs[n], extra[n]) ELSE convs[n]]

\* the lines rule specifications are made of
BaseLines == { <<"a", ":">>, <<"b", ":">>, <<"\t", "match", "\t", "x">>,
               <<"\t", "incl", "\t", "b", " ", "c">> }
PatchLines == { <<"a", ":">>, <<"c", ":">>, <<"\t", "match", "\t", "z">> }

TxtsOver(lines, max) == UNION { [1..n -> lines] : n \in 0..max }
BaseTxts == TxtsOver(BaseLines, MaxBaseLines)
PatchTxts == TxtsOver(PatchLines, MaxPatchLines)

InitTables ==
    /\ fl = "html"
    /\ has_local = FALSE
    /\ has_hooks = FALSE
    /\ pending = <<>>
    /\ macros = <<>>
    /\ end_document = [o \in Holders |-> END_DOCUMENT_NIL]
    /\ block_cmd = NoDirective
    /\ block_accum = <<>>
    /\ enum_depth = 0
    /\ pc = "load"
    /\ texdown = <<>>
    /\ stack = <<>>
    /\ output = NoOutput
    /\ error = NoError
    /\ log = <<>>
    /\ ncalls = 0
    /\ conversions = EmptyDict
    /\ conversions_order = <<>>
    /\ txt \in [base : BaseTxts, patch : PatchTxts]
    /\ load = "start"
    /\ written = NoOutput

converter == <<fl, has_local, has_hooks, pending, macros, end_document, block_cmd,
               block_accum, enum_depth, pc, texdown, stack, output, log, ncalls,
               written>>

\* CONVERSIONS, CONVERSIONS_ORDER = extract_conversions(CONVERSIONS_TXT)
LoadBase ==
    /\ load = "start"
    /\ LET r == ExtractConversions(txt.base)
       IN  IF r.err # "-"
           THEN /\ load' = "failed"
                /\ error' = [kind |-> r.err]
                /\ UNCHANGED <<conversions, conversions_order>>
           ELSE /\ load' = "extracted"
                /\ conversions' = r.conversions
                /\ conversions_order' = r.order
                /\ UNCHANGED error
    /\ UNCHANGED <<converter, txt>>

\* update_conversions(CONVERSIONS, more_conversions_txt)
UpdateStep ==
    /\ load = "extracted"
    /\ LET r == ExtractConversions(txt.patch)
       IN  IF r.err # "-"
           THEN /\ load' = "failed"
                /\ error' = [kind |-> r.err]
                /\ UNCHANGED conversions
           ELSE /\ load' = "updated"
                /\ conversions' = UpdateConversions(conversions, r.conversions)
                /\ UNCHANGED error
    /\ UNCHANGED <<converter, txt, conversions_order>>

\* the rule names some incl list of the table names without a declaration
Undeclared(convs) ==
    { n \in UNION { { r[i] : i \in 1..Len(r) } :
                    r \in { convs[m]["incl"] :
                            m \in { x \in DOMAIN convs : "incl" \in DOMAIN convs[x] } } } :
        n \notin DOMAIN convs }

\* do_convert(match, conv['incl']) for a pair rule name yields: the lookup
\* conv = CONVERSIONS[match_name] of the first included name
IncludeLookup ==
    /\ load = "updated"
    /\ \E name \in DOMAIN conversions :
        /\ "match" \in DOMAIN conversions[name]
        /\ "incl" \in DOMAIN conversions[name]
        /\ LET match_name == conversions[name]["incl"][1]
           IN  IF match_name \in DOMAIN conversions
               THEN load' = "converting" /\ UNCHANGED error
               ELSE load' = "failed" /\ error' = [kind |-> "KeyError"]
    /\ UNCHANGED <<converter, txt, conversions, conversions_order>>

NextTables ==
    \/ LoadBase
    \/ UpdateStep
    \/ IncludeLookup

SpecTables == InitTables /\ [][NextTables]_vars

(***************************************************************************)
(* Properties                                                              *)
(***************************************************************************)
\* the source text of the first n pairs convert_one yields for (t, ms)
RECURSIVE SourcePairs(_, _, _)
SourcePairs(t, ms, n) ==
    IF n = 0 THEN <<>>
    ELSE SourcePairs(t, ms, n - 1)
         \o (IF n <= Len(ms)
             THEN BeforeMatch(t, ms, n) \o Slice(t, ms[n].start, ms[n].end)
             ELSE IF ms = <<>> THEN t ELSE AfterLast(t, ms))

\* the pairs a frame's generator has yielded so far
PairsYielded(f) == IF f.phase = "gen" THEN f.idx - 1 ELSE f.idx
PairsExpected(f) == IF Len(f.ms) >= 1 THEN Len(f.ms) + 1 ELSE 1

\* C1: for every buffer a do_convert call works on, the before-match texts
\* and the matched spans of the pairs convert_one yields, concatenated in
\* yield order, are the buffer; the generator yields k + 1 pairs for k >= 1
\* matches and one pair for none, and is exhausted exactly then.
C1_Coverage ==
    \A i \in 1..Len(stack) :
        LET f == stack[i]
        IN  /\ SourcePairs(f.text, f.ms, PairsExpected(f)) = f.text
            /\ \A n \in 0..PairsExpected(f) :
                   SourcePairs(f.text, f.ms, n)
                       = Slice(f.text, 0, Len(SourcePairs(f.text, f.ms, n)))
            /\ PairsYielded(f) <= PairsExpected(f)
            /\ (i = Len(stack) /\ f.phase = "gen")
                   => (AtExhausted <=> PairsYielded(f) = PairsExpected(f))

\* a buffer with two matches, text between them and text after the last,
\* whose pairs have all been yielded
C1_Witness ==
    /\ AtExhausted
    /\ Len(Top.ms) >= 2
    /\ BeforeMatch(Top.text, Top.ms, 2) # <<>>
    /\ AfterLast(Top.text, Top.ms) # <<>>
    /\ Top.ms[1].start < Top.ms[1].end

\* the matches idx and idx + 1 are separated by at most one character
Tight(ms, idx) == ms[idx + 1].start - ms[idx].end <= 1

\* the first and the last match of the maximal run idx belongs to
RECURSIVE RunFirst(_, _)
RunFirst(ms, idx) ==
    IF idx > 1 /\ Tight(ms, idx - 1) THEN RunFirst(ms, idx - 1) ELSE idx

RECURSIVE RunLast(_, _)
RunLast(ms, idx) ==
    IF idx < Len(ms) /\ Tight(ms, idx) THEN RunLast(ms, idx + 1) ELSE idx

\* C2: the matches of a rule fall into maximal runs of matches at most one
\* character apart; the handler of a match gets open_start exactly for the
\* first match of its run and open_end exactly for the last, so an interior
\* match gets neither and a run of one gets both.
C2_AdjacencyFlags ==
    /\ AtMatch =>
          /\ CurOpenStart <=> (Top.idx = RunFirst(Top.ms, Top.idx))
          /\ CurOpenEnd <=> (Top.idx = RunLast(Top.ms, Top.idx))
    /\ (Running /\ log # <<>> /\ log[Len(log)].h = "block_cmd") =>
          LET e == log[Len(log)]
              ms == stack[1].ms
          IN  /\ e.os <=> (e.idx = RunFirst(ms, e.idx))
              /\ e.oe <=> (e.idx = RunLast(ms, e.idx))

\* the handler is about to be called for the interior match of a run of three
C2_Witness ==
    /\ AtMatch
    /\ Len(Top.ms) = 3
    /\ Top.idx = 2
    /\ RunFirst(Top.ms, 2) = 1 /\ RunLast(Top.ms, 2) = 3
    /\ ~CurOpenStart /\ ~CurOpenEnd

\* the lines a block run hands to its macro: the contents of the run's lines
\* a..b of buffer t, the first without its marker, blank ones left out
RECURSIVE RunContents(_, _, _, _)
RunContents(t, ms, a, b) ==
    IF a > b THEN <<>>
    ELSE LET line0 == Group(t, ms[b], 1)
             line == IF a = b /\ MarkerAt(line0) # {} THEN RSplitMarker(line0)[1]
                     ELSE line0
         IN  \* a is the run's first line throughout: recursion shortens at b
             (IF a < b THEN RunContents(t, ms, a, b - 1) ELSE <<>>)
             \o (IF StripNonEmpty(line) THEN <<line>> ELSE <<>>)

\* the name after the marker on line a of buffer t
RunMacroName(t, ms, a) == Join(RSplitMarker(Group(t, ms[a], 1))[2])

\* the matches of the outermost call whose handler has returned
Handled(f) == IF PairsYielded(f) < Len(f.ms) THEN PairsYielded(f) ELSE Len(f.ms)

\* C3: while a conversion runs, every line of a block run but the last has
\* contributed nothing to the output and called no macro; at the run's last
\* line the macro named on the run's first line has been called exactly
\* once, with the list of the run's non-blank line contents, first line
\* without its marker, and its return value is the run's contribution.
C3_BlockFlushOnce ==
    Running =>
        LET f == stack[1]
        IN  \A b \in 1..Handled(f) :
                LET a == RunFirst(f.ms, b)
                    IsCall(e) == e.h = "macro" /\ e.via = "block" /\ e.idx = b
                    IsEntry(e) == e.h = "block_cmd" /\ e.idx = b
                    calls == SelectSeq(log, IsCall)
                    entries == SelectSeq(log, IsEntry)
                IN  /\ Len(entries) = 1
                    /\ IF b = RunLast(f.ms, b)
                       THEN /\ Len(calls) = 1
                            /\ calls[1].name = RunMacroName(f.text, f.ms, a)
                            /\ calls[1].arg = LinesArg(RunContents(f.text, f.ms, a, b))
                            /\ entries[1].out = calls[1].out
                       ELSE /\ calls = <<>>
                            /\ entries[1].out = <<>>

\* C4: the accumulator is empty when the handler is about to process the
\* first line of a run and right after a flush; when convert returns it is
\* empty and no directive name is stored.
C4_BracketInvariant ==
    /\ (AtMatch /\ TopRule = "block_cmd" /\ CurOpenStart) => block_accum = <<>>
    /\ (log # <<>> /\ log[Len(log)].h = "block_cmd" /\ log[Len(log)].oe
            /\ ~log[Len(log)].raised) => block_accum = <<>>
    /\ pc \in {"epilogue", "returned"} => (block_accum = <<>> /\ block_cmd = NoDirective)

\* the innermost call is do_convert(text, [R] + rest) for a rule R without a
\* match in text, and has appended its only pair
NoMatchDone ==
    /\ Running /\ Top.phase = "gen"
    /\ Top.ms = <<>> /\ Top.idx = 2
    /\ Tail(Top.names) # <<>>

\* C5: when rule R has no match in text and rest is not empty,
\* do_convert(text, [R] + rest) returns what its inner call
\* do_convert(text, rest) returned, whether or not R has an incl list: the
\* result it is about to join is that value, and expanding the empty match
\* through R's incl rules finds nothing to convert.
C5_NoMatchNoOp ==
    /\ NoMatchDone => Top.result = Top.pre
    /\ \A i \in 1..Len(stack) : stack[i].text = <<>> => stack[i].ms = <<>>

\* a rule with an incl list found no match in a text the rules after it
\* change
C5_Witness ==
    /\ NoMatchDone
    /\ Incl(TopRule) # <<>>
    /\ Top.pre # Top.text
    /\ Top.pre # <<>>

\* the provider registered last among those that define name
LastDefiner(name) ==
    LET order == Providers(fl, has_local, has_hooks)
    IN  order[Max({i \in 1..Len(order) : name \in MacroNames(fl, order[i])})]

Definers(name) ==
    LET order == Providers(fl, has_local, has_hooks)
    IN  {i \in 1..Len(order) : name \in MacroNames(fl, order[i])}

\* C6: once the Converter is constructed, the registry entry of every macro
\* name is the handler of the provider registered last among those defining
\* the name, and every macro invocation made for a name goes to that
\* provider's handler.
C6_PrecedenceOverride ==
    /\ pending = <<>> =>
          \A n \in DOMAIN macros : macros[n] = LastDefiner(n)
    /\ \A i \in 1..Len(log) :
          log[i].h = "macro" => log[i].obj = LastDefiner(log[i].name)

\* a macro defined by two providers has been invoked and has returned
C6_Witness ==
    \E i \in 1..Len(log) :
        /\ log[i].h = "macro"
        /\ log[i].raises = "-"
        /\ Cardinality(Definers(log[i].name)) >= 2

\* the names of the startline directives of document t
StartlineNames(t) ==
    LET ms == FindIter(PatStartlineCmd, t)
    IN  {Join(Group(t, ms[i], 1)) : i \in 1..Len(ms)}

\* C7: when macro_startline_cmd handles a directive whose name has no
\* registered macro, the conversion fails with a ConversionError whose
\* message is "Macro '<name>' not found.", and it has no output; no macro is
\* ever invoked under an unregistered name, and a conversion that returns
\* had no startline directive with an unregistered name in its document.
C7_UnresolvedStartline ==
    /\ (log # <<>> /\ log[Len(log)].h = "startline_cmd"
            /\ log[Len(log)].command \notin DOMAIN macros) =>
          /\ pc \in {"failed", "exited"}
          /\ error.kind = "ConversionError"
          /\ error.msg = "Macro '" \o log[Len(log)].command \o "' not found."
          /\ output = NoOutput
    /\ \A i \in 1..Len(log) : log[i].h = "macro" => log[i].name \in DOMAIN macros
    /\ pc \in {"epilogue", "returned"} => StartlineNames(texdown) \subseteq DOMAIN macros

\* a directive with an unregistered name has been handled after another
\* directive of the document was carried out
C7_Witness ==
    /\ Len(log) >= 3
    /\ log[Len(log)].h = "startline_cmd"
    /\ log[Len(log)].command = "nosuch"
    /\ "nosuch" \notin DOMAIN macros
    /\ pc = "failed"

IsDocTypeCall(e) == e.h = "macro" /\ e.name \in DocTypes
DocTypeCalls == SelectSeq(log, IsDocTypeCall)

\* C8: when a conversion in which a document-type macro executed returns,
\* the text appended at the end of the output is the epilogue the (last)
\* document-type macro selected.
C8_EpilogueSelection ==
    (pc = "returned" /\ DocTypeCalls # <<>>) =>
        LET sel == SelectedEpilogue(DocTypeCalls[Len(DocTypeCalls)].obj)
        IN  /\ log[Len(log)].out = sel
            /\ Len(output.v) >= Len(sel)
            /\ Slice(output.v, Len(output.v) - Len(sel), Len(output.v)) = sel

\* C9: when a conversion in which no document-type macro executed returns,
\* the epilogue appended is the empty default, on every call of a Converter.
C9_DefaultEpilogue ==
    (pc = "returned" /\ DocTypeCalls = <<>>) => log[Len(log)].out = END_DOCUMENT_NIL

\* the input ' 3. third\n 1. first\n'
Input10 ==
    JoinLines(<< <<" ", "3", ".", " ", "third">>, <<" ", "1", ".", " ", "first">> >>)

IsNumbersEntry(e) == e.h = "numbers"
NumbersEntries == SelectSeq(log, IsNumbersEntry)

\* C10 as claimed: for the input ' 3. third\n 1. first\n' the handler of the
\* numbered-list rule gets open_start and open_end both true for each match.
C10_IndependentContainers ==
    texdown = Input10 =>
        \A i \in 1..Len(NumbersEntries) : NumbersEntries[i].os /\ NumbersEntries[i].oe

\* C10: for the input ' 3. third\n 1. first\n' the numbered-list rule finds
\* two matches with no character between them; the first gets open_start
\* only and the second open_end only, so the LaTeX output is one enumerate
\* container, its counter set to 2, holding both items.
C10_SharedContainer ==
    texdown = Input10 =>
        /\ Len(NumbersEntries) <= 2
        /\ Len(NumbersEntries) >= 1 =>
              NumbersEntries[1].os /\ ~NumbersEntries[1].oe
        /\ Len(NumbersEntries) >= 2 =>
              ~NumbersEntries[2].os /\ NumbersEntries[2].oe
        /\ (fl = "latex" /\ pc = "returned") =>
              /\ Len(NumbersEntries) = 2
              /\ output.v = <<"\\begin{enumerate}", "\n",
                              "\\setcounter{", "enumi", "}{", "2", "}", "\n",
                              "\t", "\\item", " ", " ", "third", "\n",
                              "\t", "\\item", " ", " ", "first", "\n",
                              "\\end{enumerate}", "\n">>

\* the LaTeX conversion of ' 3. third\n 1. first\n' has returned
C10_Witness == texdown = Input10 /\ fl = "latex" /\ pc = "returned"

\* the input '*item one\n*item two\n' and the same items indented by a space
Input11 == JoinLines(<< <<"*", "item", " ", "one">>, <<"*", "item", " ", "two">> >>)
Input11Indented ==
    JoinLines(<< <<" ", "*", "item", " ", "one">>, <<" ", "*", "item", " ", "two">> >>)

IsBulletsEntry(e) == e.h = "bullets"
BulletsEntries == SelectSeq(log, IsBulletsEntry)

\* the number of occurrences of symbol c in text t
RECURSIVE Occurrences(_, _)
Occurrences(t, c) ==
    IF t = <<>> THEN 0
    ELSE (IF Head(t) = c THEN 1 ELSE 0) + Occurrences(Tail(t), c)

\* the list container with the two items, in order
OneContainer ==
    <<"\\begin{itemize}", "\n",
      "\t", "\\item", " ", "item", " ", "one", "\n",
      "\t", "\\item", " ", "item", " ", "two", "\n",
      "\\end{itemize}", "\n">>

\* C11 as claimed: the conversion of '*item one\n*item two\n' is one list
\* container, opened once and closed once, holding the two items in order.
C11_OneContainer ==
    (texdown = Input11 /\ pc = "returned") =>
        /\ Len(BulletsEntries) = 2
        /\ output.v = OneContainer

\* C11: the bullet pattern asks for at least one space before '*'.  For
\* ' *item one\n *item two\n' the bullet handler is called twice, the first
\* call opening and the second closing, and the output (no post-processing
\* hook being loaded) is one container with the two items in order.  For '*item one\n*item two\n' the bullet
\* rule has no match; the bold rule rewrites '*item one\n*' and the output
\* holds no list container.
C11_IndentedContainer ==
    /\ (texdown = Input11Indented /\ pc = "returned" /\ ~has_hooks) =>
          /\ Len(BulletsEntries) = 2
          /\ BulletsEntries[1].os /\ ~BulletsEntries[1].oe
          /\ ~BulletsEntries[2].os /\ BulletsEntries[2].oe
          /\ output.v = OneContainer
    /\ texdown = Input11 =>
          /\ BulletsEntries = <<>>
          /\ pc = "returned" =>
                /\ Occurrences(output.v, "\\begin{itemize}") = 0
                /\ output.v = (IF fl = "html" THEN <<"<b>">> ELSE <<"\\textbf{">>)
                              \o <<"item", " ", "one", "\n">>
                              \o (IF fl = "html" THEN <<"</b>">> ELSE <<"}">>)
                              \o <<"item", " ", "two", "\n">>

\* the conversion of ' *item one\n *item two\n' has returned
C11_Witness == texdown = Input11Indented /\ pc = "returned" /\ ~has_hooks

\* the rule names of a table
Names(convs) == DOMAIN convs

\* C12: an update_conversions step leaves the rule names and
\* CONVERSIONS_ORDER as they were, adds no rule only the patch declares, and
\* for a rule both declare gives every field of the patch the patch's value
\* and every other field its base value; a rule only the base declares is
\* unchanged.
C12_PatchMerge ==
    [][(load = "extracted" /\ load' = "updated") =>
        LET extra == ExtractConversions(txt.patch).conversions
        IN  /\ Names(conversions') = Names(conversions)
            /\ conversions_order' = conversions_order
            /\ \A n \in Names(conversions) :
                  IF n \in Names(extra)
                  THEN /\ DOMAIN conversions'[n] =
                             DOMAIN conversions[n] \cup DOMAIN extra[n]
                       /\ \A k \in DOMAIN conversions'[n] :
                             conversions'[n][k] =
                                 IF k \in DOMAIN extra[n] THEN extra[n][k]
                                 ELSE conversions[n][k]
                  ELSE conversions'[n] = conversions[n]]_vars

\* a patch that replaces a field of rule a, leaves its incl field alone and
\* declares a rule c the base does not have
C12_Witness ==
    /\ load = "updated"
    /\ txt.base = << <<"a", ":">>, <<"\t", "match", "\t", "x">>,
                     <<"\t", "incl", "\t", "b", " ", "c">> >>
    /\ txt.patch = << <<"a", ":">>, <<"\t", "match", "\t", "z">>, <<"c", ":">> >>
    /\ conversions[<<"a">>]["match"] = [compiled |-> <<"z">>]
    /\ conversions[<<"a">>]["incl"] = << <<"b">>, <<"c">> >>
    /\ <<"c">> \notin Names(conversions)

\* C13: a rule specification in which an incl list names a rule that is
\* never declared does not load: no table that a load produced has an
\* undeclared included name.
C13_UndeclaredIncludeRejected ==
    load \in {"extracted", "updated", "converting"} => Undeclared(conversions) = {}

InGaps == \A j \in 1..(Len(stack) - 1) : stack[j].phase = "pre_wait"

\* the 1-based line of the document on which the current match starts
SourceLine ==
    CountNewlines(texdown, SourceOffset(Len(stack)) + CurMatch.start) + 1

\* C14: when a handler raises, the line reported with the error is the
\* 1-based line of the source document on which the triggering match
\* starts, for a match of the top-level buffer as for a match of a gap
\* handed to lower-priority rules; the error raised is the handler's.
C14_ReportedLine ==
    [][(AtMatch /\ InGaps /\ pc' = "failed") => error'.line = SourceLine]_vars

\* C15: the driver writes only after the whole conversion, epilogue
\* included, has returned normally, and then writes the converted text;
\* when the conversion raised, nothing is written.
C15_NoPartialOutput ==
    /\ pc = "written" =>
          /\ error = NoError
          /\ output # NoOutput
          /\ written = output
          /\ log # <<>>
          /\ log[Len(log)].h = "macro"
          /\ log[Len(log)].name = "end_document"
    /\ pc # "written" => written = NoOutput

\* a conversion that failed after a handler had already produced text
C15_Witness ==
    /\ pc = "exited"
    /\ error.kind = "ConversionError"
    /\ Len(log) >= 2
    /\ written = NoOutput

\* a tab followed by '!!' occurs in line
HasMarker(line) ==
    \E i \in 1..(Len(line) - 2) :
        line[i] = "\t" /\ line[i + 1] = "!" /\ line[i + 2] = "!"

\* the block handler is about to be called for the first line of a run
AtBlockOpen ==
    AtMatch /\ HandlerIs(TopRule, "block_cmd", {"conv"}) /\ CurOpenStart

\* C16: when the first line of a block run has no directive marker, the
\* block handler raises ConversionError, block_accum and block_cmd stay as
\* they were and no block macro is invoked.
C16_MissingMarker ==
    [][(AtBlockOpen /\ ~HasMarker(Group(Top.text, CurMatch, 1))) =>
        /\ pc' = "failed"
        /\ error'.kind = "ConversionError"
        /\ block_accum' = block_accum
        /\ block_cmd' = block_cmd
        /\ Len(log') = Len(log) + 1
        /\ log'[Len(log')].h = "block_cmd"]_vars

\* the handler refused a first line while the accumulator held the lines
\* an aborted conversion had left
C16_Witness ==
    /\ pc = "failed"
    /\ error.kind = "ConversionError"
    /\ error.msg = "Block does not end with \\t!!macroname"
    /\ block_accum # <<>>

\* what the first line of a run contributes to the accumulator: its
\* content before the marker, unless blank
OwnLines(line0) ==
    LET line == RSplitMarker(line0)[1]
    IN  IF StripNonEmpty(line) THEN <<line>> ELSE <<>>

\* C17: when the block handler handles the first line of a run, whatever
\* the accumulator held before is dropped: after the step the accumulator
\* holds that line only, and a block macro the step invokes (a run of one
\* line) receives that line only.
C17_OpenClears ==
    [][(AtBlockOpen /\ HasMarker(Group(Top.text, CurMatch, 1))) =>
        LET own == OwnLines(Group(Top.text, CurMatch, 1))
        IN  /\ ~CurOpenEnd => block_accum' = own
            /\ \A i \in (Len(log) + 1)..Len(log') :
                  log'[i].h = "macro" => log'[i].arg = LinesArg(own)]_vars

DirectiveSet == block_cmd # NoDirective

\* C18 as claimed: block_accum is non-empty exactly when block_cmd is set.
C18_AccumulatorConsistency == (block_accum # <<>>) <=> DirectiveSet

\* C18: whenever block_accum holds a line, block_cmd is set.  (The converse
\* fails: a first line with nothing but blanks before its marker sets
\* block_cmd and appends nothing.)
C18_AccumImpliesDirective == block_accum # <<>> => DirectiveSet

\* a run is open whose first line is the marker alone
C18_Witness ==
    /\ Running
    /\ DirectiveSet
    /\ block_accum = <<>>
    /\ texdown = JoinLines(<< <<"\t", "\t", "!", "!", "techreport">>,
                              <<"\t", "title", "\t", "a">> >>)

\* C19: for a rule with a hook postproc_<rule>, what do_convert appends to
\* its result for a match is the value the hook returned, unchanged by the
\* rule's include re-expansion or any further rule.
C19_PostprocFinal ==
    \A i \in 1..Len(stack) :
        LET f == stack[i]
        IN  (HasPostproc(f.names[1]) /\ f.phase = "gen" /\ f.idx > 1
                /\ f.idx <= Len(f.ms) + 1) =>
                /\ f.mat = f.yld
                /\ Slice(f.result, Len(f.result) - Len(f.yld), Len(f.result)) = f.yld

\* the counter a handler call names in its counter-set instruction, "" if
\* its output has none
CounterOf(e) ==
    IF \E i \in 1..Len(e.out) : e.out[i] = "\\setcounter{"
    THEN e.out[(CHOOSE i \in 1..Len(e.out) : e.out[i] = "\\setcounter{") + 1]
    ELSE ""

\* log[k] handled a numbered line that follows the numbered line log[k - 1]
\* handled, and is indented deeper
NestedAt(k) ==
    /\ k > 1
    /\ log[k].h = "numbers" /\ log[k - 1].h = "numbers"
    /\ log[k].depth = log[k - 1].depth
    /\ log[k].idx = log[k - 1].idx + 1
    /\ log[k].indent > log[k - 1].indent

\* C20: the counter a counter-set instruction names is 'enum' followed by
\* one 'i' per level of enum_depth, and a numbered line indented deeper than
\* the numbered line before it opens a list one level down, whose counter is
\* not the counter of the enclosing list.
C20_NestedCounters ==
    fl = "latex" =>
        \A k \in 1..Len(log) :
            /\ (log[k].h = "numbers" /\ CounterOf(log[k]) # "") =>
                    CounterOf(log[k]) = EnumVar(log[k].level)
            /\ NestedAt(k) =>
                    /\ log[k].os
                    /\ log[k].level = log[k - 1].level + 1
                    /\ log[k].number # 1 =>
                          /\ CounterOf(log[k]) = EnumVar(log[k].level)
                          /\ CounterOf(log[k]) # EnumVar(log[k - 1].level)

\* the provider groups in their stated precedence: 1 the engine's own
\* providers (the Converter and the output format's macro provider), 2 the
\* site-level provider localmacros, 3 the modules named with -m
Tier(obj) ==
    CASE obj \in {"conv", "builtin", "html"} -> 1
      [] obj = "local" -> 2
      [] obj = "hooks" -> 3

\* the highest group with a provider that defines name
TopTier(name) ==
    Max({ Tier(o) : o \in { x \in {"conv", "builtin", "html", "local", "hooks"} :
                               /\ \E i \in 1..Len(Providers(fl, has_local, has_hooks)) :
                                     Providers(fl, has_local, has_hooks)[i] = x
                               /\ name \in MacroNames(fl, x) } })

\* C21: providers are registered group by group, engine-builtin first, then
\* the site-level provider, then the per-document providers; so once the
\* Converter is constructed every name is bound to a handler of the highest
\* group that defines it.
C21_ProviderOrder ==
    /\ \A n \in DOMAIN macros :
          pending # <<>> => Tier(macros[n]) <= Tier(Head(pending))
    /\ pending = <<>> =>
          \A n \in DOMAIN macros : Tier(macros[n]) = TopTier(n)

\* the conversion ended in the block handler, at a run whose directive names
\* no registered macro
UnresolvedBlock ==
    /\ pc \in {"failed", "exited"}
    /\ log # <<>>
    /\ log[Len(log)].h = "block_cmd"
    /\ log[Len(log)].raised
    /\ log[Len(log)].oe
    /\ block_cmd \notin DOMAIN macros
    /\ error.msg = block_cmd

\* C22: a block directive that names an unregistered macro fails with the
\* error kind of an unresolved startline directive, ConversionError, which
\* the driver catches and reports.
C22_UnresolvedKind ==
    /\ UnresolvedBlock => error.kind = "ConversionError"
    /\ (pc \in {"failed", "exited"} /\ log # <<>>
            /\ log[Len(log)].h = "startline_cmd"
            /\ log[Len(log)].command \notin DOMAIN macros) =>
          error.kind = "ConversionError"

\* the rule of the current match has neither a template nor a handler
AtBareRule == AtMatch /\ ~HasFunc(TopRule) /\ ~HasRepl(fl, TopRule)

\* C23: when the pattern of a rule with neither repl nor func matches, the
\* conversion goes on: the match contributes its own text, which only the
\* rule's includes may rewrite.
C23_BareRuleLegal ==
    [][AtBareRule =>
        /\ pc' = "run"
        /\ stack' = Yielded(stack, CurBefore,
                            Slice(Top.text, CurMatch.start, CurMatch.end))]_vars

(***************************************************************************)
(* A call of convert that has been entered keeps running: the interpreter  *)
(* executes the next statement of do_convert, convert_one or the handler.  *)
(* Nothing obliges a caller to make a call or to write the output.         *)
(***************************************************************************)
DoConvertStep ==
    \/ YieldNoMatch
    \/ MacroBlockCmd
    \/ MacroStartlineCmd
    \/ MacroBullets
    \/ MacroNumbers
    \/ MacroNumbersHtml
    \/ ApplyRepl
    \/ NotImplemented
    \/ YieldTrailing
    \/ Return

SpecFair == Init /\ [][Next]_vars /\ WF_vars(DoConvertStep)

\* the rules a chain of at most n include re-expansions reaches from names
RECURSIVE InclReach(_, _)
InclReach(names, n) ==
    IF n = 0 THEN {}
    ELSE LET direct ==
                 UNION {{InclTxt(r)[i] : i \in 1..Len(InclTxt(r))} : r \in names}
         IN  direct \cup InclReach(direct, n - 1)

\* no rule of the table reaches itself through its incl lines
InclAcyclic == \A r \in Including : r \notin InclReach({r}, Cardinality(Including))

\* the call below frame k is a gap call with a strictly shorter rule list
GapShorter(k) ==
    stack[k].phase = "pre_wait" =>
        /\ Len(stack[k + 1].names) < Len(stack[k].names)
        /\ stack[k + 1].names = Tail(stack[k].names)

\* no call inside the include re-expansion of frame k tries k's rule again
NoRevisit(k) ==
    stack[k].phase = "incl_wait" =>
        \A j \in (k + 1)..Len(stack) : stack[j].names[1] # stack[k].names[1]

\* C24: no conversion runs for ever: whenever do_convert is running it is
\* over at some later moment, and it is left only with a result (pc
\* "epilogue") or with a raised error (pc "failed"); every gap call has a
\* strictly shorter rule list than its caller, no rule includes itself
\* through any chain of includes, and no include re-expansion revisits
\* its rule.
C24_Termination ==
    /\ [](\A k \in 1..(Len(stack) - 1) : GapShorter(k) /\ NoRevisit(k))
    /\ []InclAcyclic
    /\ [][pc = "run" => pc' \in {"run", "epilogue", "failed"}]_vars
    /\ []<>(pc # "run")

\* a gap call is running inside an include re-expansion
C24_Witness ==
    /\ Running
    /\ \E k \in 1..(Len(stack) - 2) :
          stack[k].phase = "incl_wait" /\ stack[k + 1].phase = "pre_wait"

\* the calls of macros and of rule handlers in the log
MacroCalls(via) == {i \in 1..Len(log) : log[i].h = "macro" /\ log[i].via = via}
HandlerCalls == {i \in 1..Len(log) : log[i].h \in {"block_cmd", "startline_cmd",
                                                    "bullets", "numbers"}}

\* the place of a rule in CONVERSIONS_ORDER
Priority(name) ==
    CHOOSE i \in 1..Len(CONVERSIONS_ORDER) : CONVERSIONS_ORDER[i] = name

\* the part of the document the i-th active call works on
InBuffer(i, at) ==
    SourceOffset(i) <= at /\ at <= SourceOffset(i) + Len(stack[i].text)

\* the handler of the rule of call k has run on match idx of call k's buffer
HandlerRan(k, idx) ==
    \E i \in HandlerCalls :
        /\ log[i].h = Func(stack[k].names[1])
        /\ log[i].idx = idx
        /\ log[i].at = SourceOffset(k) + stack[k].ms[idx].start

\* the statement as written: a block macro is called before every
\* startline macro of an earlier line of the document
C25_BlockMacroFirst ==
    \A i \in MacroCalls("startline"), j \in MacroCalls("block") :
        log[i].at < log[j].at => j < i

\* C25: within one buffer the handler of a rule is called on the matches
\* from left to right, and on match i before the gap before match i is
\* handed to the lower-priority rules; so a handler of a higher-priority
\* rule, with the macro it calls, runs before the handlers and macros of
\* lower-priority rules in the gap that immediately precedes its match.  A
\* block macro is called by the handler of the last line of its block: it
\* runs before the macros of that gap only, and after those of the text
\* before it.
C25_HandlerOrder ==
    /\ \A k \in 1..Len(stack) :
          (InGaps /\ stack[k].phase = "pre_wait" /\ HasFunc(stack[k].names[1])
               /\ stack[k].idx <= Len(stack[k].ms))
              => /\ HandlerRan(k, stack[k].idx)
                 /\ \A idx \in 1..Len(stack[k].ms) :
                        HandlerRan(k, idx) <=> idx <= stack[k].idx
    /\ (AtMatch /\ InGaps /\ HasFunc(TopRule))
          => \A idx \in 1..Len(Top.ms) :
                 HandlerRan(Len(stack), idx) <=> idx < Top.idx
    /\ \A i, j \in HandlerCalls \cup MacroCalls("block") \cup MacroCalls("startline") :
          LET hi == IF log[i].h = "macro" THEN log[i].via \o "_cmd" ELSE log[i].h
              hj == IF log[j].h = "macro" THEN log[j].via \o "_cmd" ELSE log[j].h
          IN  (Priority(hj) < Priority(hi)
                  /\ log[j].gap <= log[i].at /\ log[i].at < log[j].at) => j < i
    /\ \A i \in MacroCalls("startline"), j \in MacroCalls("block") :
          log[i].at < log[j].gap => i < j

\* a block macro and the startline macro of the line before its block have
\* both returned, the block macro first
C25_Witness ==
    \E i \in MacroCalls("startline"), j \in MacroCalls("block") :
        /\ log[j].gap <= log[i].at /\ log[i].at < log[j].at /\ j < i
        /\ log[i].raises = "-" /\ log[j].raises = "-"

\* a block macro of a block of two lines has returned after the startline
\* macro of the line before the block
C25_WitnessLater ==
    \E i \in MacroCalls("startline"), j \in MacroCalls("block") :
        /\ log[i].at < log[j].gap /\ i < j
        /\ log[i].raises = "-" /\ log[j].raises = "-"

\* the matches of a call that convert_one has passed to the handler
Done(f) ==
    LET n == IF f.phase = "gen" THEN f.idx - 1 ELSE f.idx
    IN  IF n > Len(f.ms) THEN Len(f.ms) ELSE n

\* opens minus closes over the first n matches of ms
RECURSIVE Balance(_, _)
Balance(ms, n) ==
    IF n = 0 THEN 0
    ELSE Balance(ms, n - 1) + (IF OpenStart(ms, n) THEN 1 ELSE 0)
                            - (IF OpenEnd(ms, n) THEN 1 ELSE 0)

\* C26: in every buffer, for every rule, open_end of a match equals
\* open_start of the next match, the first match has open_start and the
\* last has open_end; the opens and closes up to any match differ by 0 or
\* 1, by 1 exactly inside a run, and by 0 after the last match; enum_depth,
\* the counter macro_numbers increments on open_start and decrements on
\* open_end, is that difference while the numbers rule is at work, is 0
\* otherwise, and never leaves {0, 1}.
C26_FlagSymmetry ==
    /\ \A k \in 1..Len(stack) :
          LET ms == stack[k].ms
          IN  /\ \A i \in 1..(Len(ms) - 1) : OpenEnd(ms, i) = OpenStart(ms, i + 1)
              /\ ms # <<>> => OpenStart(ms, 1) /\ OpenEnd(ms, Len(ms))
              /\ \A n \in 1..Len(ms) :
                    /\ Balance(ms, n) = (IF OpenEnd(ms, n) THEN 0 ELSE 1)
                    /\ Balance(ms, n - 1) = (IF OpenStart(ms, n) THEN 0 ELSE 1)
              /\ Balance(ms, Len(ms)) = 0
    /\ enum_depth \in {0, 1}
    /\ fl = "latex" =>
          /\ \A k \in 1..Len(stack) :
                stack[k].names[1] = "numbers"
                    => enum_depth = Balance(stack[k].ms, Done(stack[k]))
          /\ (\A k \in 1..Len(stack) : stack[k].names[1] # "numbers")
                => enum_depth = 0

\* inside a run of numbered items: the list is open and the counter is 1
C26_Witness ==
    /\ fl = "latex" /\ AtMatch /\ TopRule = "numbers"
    /\ Top.idx >= 2 /\ ~CurOpenStart /\ enum_depth = 1

\* two list items with one empty line between them
Input27 ==
    JoinLines(<< <<" ", "*", "item", " ", "one">>, <<>>,
                 <<" ", "*", "item", " ", "one">> >>)

\* the text between match i and match i + 1 of a call
Between(f, i) == Slice(f.text, f.ms[i].end, f.ms[i + 1].start)

\* C27: two matches of a list rule with nothing or exactly one empty line
\* between them (a gap of at most one character) are adjacent: the first
\* does not close and the second does not open; with more than one
\* character between them the first closes and the second opens.  The
\* conversion of ' *item one\n\n *item one\n' is one container holding
\* the two items, the line break of the empty line between them.
C27_BlankLineTolerance ==
    /\ \A k \in 1..Len(stack) :
          stack[k].names[1] \in {"bullets", "numbers"} =>
              \A i \in 1..(Len(stack[k].ms) - 1) :
                  /\ Between(stack[k], i) \in {<<>>, <<"\n">>}
                        => ~OpenEnd(stack[k].ms, i) /\ ~OpenStart(stack[k].ms, i + 1)
                  /\ Len(Between(stack[k], i)) > 1
                        => OpenEnd(stack[k].ms, i) /\ OpenStart(stack[k].ms, i + 1)
                  /\ Len(Between(stack[k], i)) = 1
                        => Between(stack[k], i) = <<"\n">>
    /\ (texdown = Input27 /\ pc = "returned" /\ ~has_hooks) =>
          /\ Len(BulletsEntries) = 2
          /\ BulletsEntries[1].os /\ ~BulletsEntries[1].oe
          /\ ~BulletsEntries[2].os /\ BulletsEntries[2].oe
          /\ output.v = <<"\\begin{itemize}", "\n",
                          "\t", "\\item", " ", "item", " ", "one", "\n",
                          "\n",
                          "\t", "\\item", " ", "item", " ", "one", "\n",
                          "\\end{itemize}", "\n">>
    /\ texdown = Input27 => pc # "failed"

\* the conversion of ' *item one\n\n *item one\n' has returned
C27_Witness == texdown = Input27 /\ pc = "returned" /\ ~has_hooks

\* offset at begins a line of the document
LineStart(at) == at = 0 \/ texdown[at] = "\n"

\* the rules of the modelled table whose pattern begins with '^'
Anchored == {"block_cmd", "startline_cmd", "bullets", "numbers"}

\* C28: in every buffer cut from the document, a rule anchored at line
\* start matches only where a line of the document begins, and
\* escape_percents leaves exactly those '%' alone that begin a line of the
\* document.
C28_SourceAnchors ==
    \A k \in 1..Len(stack) :
        (\A j \in 1..(k - 1) : stack[j].phase = "pre_wait") =>
            LET f == stack[k]
                off == SourceOffset(k)
            IN  /\ f.names[1] \in Anchored =>
                      \A i \in 1..Len(f.ms) : LineStart(off + f.ms[i].start)
                /\ f.names[1] = "escape_percents" =>
                      \A p \in 0..(Len(f.text) - 1) :
                          f.text[p + 1] = "%" =>
                              (LineStart(off + p)
                                   <=> ~\E i \in 1..Len(f.ms) : f.ms[i].start = p)

====
